---- MODULE Spec2Model ----
(***************************************************************************)
(* NexusCoders-Bot, index.js: the boot sequence, the credential bootstrap, *)
(* the connection lifecycle (connectToWhatsApp and its connection.update   *)
(* handler, the reconnect timers, the retry budget), the owner             *)
(* notification loop and the routing of inbound events.                    *)
(*                                                                         *)
(* Node runs the program on one event loop: every action below is one      *)
(* run-to-completion piece of a callback, from where it is entered (or     *)
(* resumed after an await) to its next await, return or process.exit.      *)
(*                                                                         *)
(* The transport (makeWASocket) is the environment.  Each instance emits   *)
(* connection.update events along its life: any number of updates that     *)
(* are neither open nor close (connecting, qr), at most one open, and one  *)
(* close, after which it emits nothing.                                    *)
(***************************************************************************)
EXTENDS Integers, Sequences, FiniteSets, TLC

\* ---------------------------------------------------------------- constants

MAX_RETRIES == 5

\* DisconnectReason.loggedOut, and two other status codes a close can carry
\* (connectionClosed; 0 stands for a close without lastDisconnect.error).
LoggedOut == 401
StatusCodes == {401, 428, 0}

\* ------------------------------------------------------------------- bounds

\* config.bot.ownerNumber has NOwners entries.
NOwners == 2
\* connectToWhatsApp attempts (calls that pass the guard) in one run.
MaxConnects == 6
\* Inbound events (message batches, group events) delivered in one run.
MaxEvents == 2
\* Items in one batch of messages or of group updates.
MaxBatch == 2
\* Inbound events in one run of the specification of single batches.
MaxFrames == 1

Owners == 1..NOwners

\* --------------------------------------------------------------------- state

VARIABLES
    bootPc,             \* where initialize() stands
    sessionEnv,         \* process.env.SESSION_DATA
    dir,                \* sessionDir: a set of <<file name, content>>
    bootstrapped,       \* what processSessionData returned ("pending" before)
    psd,                \* processSessionData's frame while it is suspended
    isConnecting,       \* the reentrancy flag
    initialConnection,  \* the first-connection flag
    retryCount,
    socks,              \* every transport made so far, by instance: its state
    timers,             \* pending setTimeout(connectToWhatsApp, 5000)
    calls,              \* every connectToWhatsApp attempt: where it stands
    loops,              \* every owner-notification loop: the owner awaited
    sent,               \* sendStartupMessage invocations per owner
    exitCodes,          \* the arguments of process.exit, in call order
    last,               \* the operation of the last step, and what it saw
    closes,             \* transient close events since the last open (or boot)
    excs,               \* caught connect exceptions since the last open
    routes              \* every inbound event delivered: its handler's frame

vars == <<bootPc, sessionEnv, dir, bootstrapped, psd, isConnecting,
          initialConnection, retryCount, socks, timers, calls, loops, sent,
          exitCodes, last, closes, excs, routes>>

bootVars == <<bootPc, sessionEnv, dir, bootstrapped, psd>>
connVars == <<isConnecting, initialConnection, retryCount, socks, timers,
              calls, loops, sent, closes, excs>>

\* The process runs until process.exit is called.
Running == exitCodes = <<>>

\* initialize() resumes after await connectToWhatsApp() and runs to its
\* end (startServer, the two process.on calls) on promise continuations: no
\* timer or I/O callback runs until it is through.
ContinuationPending ==
    \/ bootPc = "awaitConnect" /\ calls # <<>> /\ calls[1] = "done"
    \/ bootPc = "handlers"

\* The event loop takes the next timer or I/O callback.
Turn == Running /\ ~ContinuationPending

\* The module-level variable sock: the transport made last (0 is null).
sock == Len(socks)

Live(s) == socks[s] \in {"connecting", "open"}
LiveSocks == {s \in DOMAIN socks : Live(s)}
InFlight == {c \in DOMAIN calls : calls[c] # "done"}

Did(op, arg) == last' = [op |-> op, rc |-> retryCount, arg |-> arg]

\* ------------------------------------------------- credential bootstrap input

\* process.env.SESSION_DATA: undefined, or a string of base64 characters.
Absent == <<"undefined">>

\* The value of a base64 character (of those the inputs use); "=" pads.
B64Val(c) ==
    CASE c = "E" -> 4
      [] c = "M" -> 12
      [] c = "Q" -> 16
      [] c = "T" -> 19
      [] c = "e" -> 30
      [] c = "w" -> 48
      [] c = "x" -> 49
      [] c = "0" -> 52
      [] c = "3" -> 55
      [] OTHER   -> 0

\* Buffer.from(q, 'base64') for one group of four characters: three bytes,
\* fewer when the group is padded.
DecodeQuad(q) ==
    LET bits == B64Val(q[1]) * 262144 + B64Val(q[2]) * 4096
                + B64Val(q[3]) * 64 + B64Val(q[4])
        b1 == bits \div 65536
        b2 == (bits \div 256) % 256
        b3 == bits % 256
    IN  IF q[3] = "=" THEN <<b1>>
        ELSE IF q[4] = "=" THEN <<b1, b2>>
        ELSE <<b1, b2, b3>>

RECURSIVE Base64Decode(_)
Base64Decode(s) ==
    IF Len(s) < 4 THEN <<>>
    ELSE DecodeQuad(SubSeq(s, 1, 4)) \o Base64Decode(SubSeq(s, 5, Len(s)))

\* JSON.parse on the decoded bytes, for the documents the inputs can spell:
\* the empty object "{}" (123 125) and a number of digits "1" (49).  Anything
\* else, the empty text included, is a SyntaxError.
IsNumber(bytes) == Len(bytes) > 0 /\ \A i \in DOMAIN bytes : bytes[i] = 49
IsEmptyObject(bytes) == bytes = <<123, 125>>
JSONParse(bytes) ==
    IF IsNumber(bytes) \/ IsEmptyObject(bytes)
    THEN [ok |-> TRUE, value |-> bytes]
    ELSE [ok |-> FALSE, value |-> <<>>]

FullQuads == {<<"e", "3", "0", "x">>, <<"M", "T", "E", "x">>}
LastQuads == FullQuads \cup
             {<<"e", "3", "0", "=">>, <<"M", "Q", "=", "=">>, <<"e", "w", "=", "=">>}
SessionEnvs == {Absent, <<>>} \cup LastQuads
               \cup {a \o b : a \in FullQuads, b \in LastQuads}

\* What sessionDir may hold when the process starts.
OldCreds == <<111>>
OldDir == {<<"creds.json", OldCreds>>, <<"pre-key-1.json", OldCreds>>}
InitDirs == {{}, OldDir}

\* ----------------------------------------------------------------------- Init

InitFrom(envs, dirs) ==
    /\ bootPc = "banner"
    /\ sessionEnv \in envs
    /\ dir \in dirs
    /\ bootstrapped = "pending"
    /\ psd = [pc |-> "idle", data |-> <<>>]
    /\ isConnecting = FALSE
    /\ initialConnection = TRUE
    /\ retryCount = 0
    /\ socks = <<>>
    /\ timers = 0
    /\ calls = <<>>
    /\ loops = <<>>
    /\ sent = [o \in Owners |-> 0]
    /\ exitCodes = <<>>
    /\ last = [op |-> "start", rc |-> 0, arg |-> 0]
    /\ closes = 0
    /\ excs = 0
    /\ routes = <<>>

\* process.exit(code): the process ends; nothing runs afterwards.
Exit(code) == exitCodes' = Append(exitCodes, code)

\* ------------------------------------------------------------ initialize()

\* A boot step whose rejection is logged and that moves on all the same.
BootStepCarriesOn(at, next, ok) ==
    /\ Running
    /\ bootPc = at
    /\ bootPc' = next /\ UNCHANGED exitCodes
    /\ Did(at, IF ok THEN 1 ELSE 0)
    /\ UNCHANGED <<sessionEnv, dir, bootstrapped, psd>>
    /\ UNCHANGED <<connVars, routes>>

\* A boot step whose await resolves moves on; one that rejects lands in
\* initialize's catch, which logs and calls process.exit(1).
BootStep(at, next, ok) ==
    /\ Running
    /\ bootPc = at
    /\ IF ok
       THEN bootPc' = next /\ UNCHANGED exitCodes
       ELSE bootPc' = "failed" /\ Exit(1)
    /\ Did(at, IF ok THEN 1 ELSE 0)
    /\ UNCHANGED <<sessionEnv, dir, bootstrapped, psd>>
    /\ UNCHANGED <<connVars, routes>>

\* displayBanner resolves whether or not figlet reports an error.
DisplayBanner == BootStep("banner", "dirs", TRUE)

EnsureDirectories == \E ok \in BOOLEAN : BootStep("dirs", "db", ok)

ConnectToDatabase == \E ok \in BOOLEAN : BootStep("db", "session", ok)

InitializeCommands == \E ok \in BOOLEAN : BootStep("commands", "events", ok)

LoadEvents == \E ok \in BOOLEAN : BootStep("events", "connect", ok)

\* ------------------------------------------------------ processSessionData()

\* fs.emptyDir(sessionDir)
emptyDir(d) == {}

\* fs.writeJSON(path.join(sessionDir, 'creds.json'), data)
writeJSON(d, data) ==
    {f \in d : f[1] # "creds.json"} \cup {<<"creds.json", data>>}

\* processSessionData emptying the directory before it parses the value.
processSessionDataClearsFirst(env) ==
    IF env = Absent \/ env = <<>>
    THEN /\ bootstrapped' = "false"
         /\ bootPc' = "commands"
         /\ Did("session_absent", Cardinality(dir))
         /\ UNCHANGED <<dir, psd>>
    ELSE LET sessionData == JSONParse(Base64Decode(env))
         IN  IF sessionData.ok
             THEN /\ psd' = [pc |-> "writeJSON", data |-> sessionData.value]
                  /\ dir' = emptyDir(dir)
                  /\ Did("session_parsed", Cardinality(dir))
                  /\ UNCHANGED <<bootstrapped, bootPc>>
             ELSE /\ bootstrapped' = "false"
                  /\ bootPc' = "commands"
                  /\ dir' = emptyDir(dir)
                  /\ Did("session_malformed", Cardinality(dir))
                  /\ UNCHANGED psd

\* Entry: the environment check, then decode and parse inside the try.  With
\* no value (undefined or the empty string) it returns false; when JSON.parse
\* throws, the catch logs and returns false; otherwise it calls fs.emptyDir
\* and is suspended on it.  initialize() discards the returned value.
processSessionData(env) ==
    IF env = Absent \/ env = <<>>
    THEN /\ bootstrapped' = "false"
         /\ bootPc' = "commands"
         /\ Did("session_absent", Cardinality(dir))
         /\ UNCHANGED <<dir, psd>>
    ELSE LET sessionData == JSONParse(Base64Decode(env))
         IN  IF sessionData.ok
             THEN /\ psd' = [pc |-> "emptyDir", data |-> sessionData.value]
                  /\ Did("session_parsed", Cardinality(dir))
                  /\ UNCHANGED <<dir, bootstrapped, bootPc>>
             ELSE /\ bootstrapped' = "false"
                  /\ bootPc' = "commands"
                  /\ Did("session_malformed", Cardinality(dir))
                  /\ UNCHANGED <<dir, psd>>

ProcessSessionData ==
    /\ Running
    /\ bootPc = "session"
    /\ psd.pc = "idle"
    /\ processSessionData(sessionEnv)
    /\ UNCHANGED <<sessionEnv, exitCodes>>
    /\ UNCHANGED <<connVars, routes>>

\* await fs.emptyDir resolves; fs.writeJSON is called.
EmptyDirDone ==
    /\ Running
    /\ psd.pc = "emptyDir"
    /\ dir' = emptyDir(dir)
    /\ psd' = [psd EXCEPT !.pc = "writeJSON"]
    /\ Did("emptyDir", Cardinality(dir))
    /\ UNCHANGED <<bootPc, sessionEnv, bootstrapped, exitCodes>>
    /\ UNCHANGED <<connVars, routes>>

\* await fs.writeJSON resolves; return true.
WriteJSONDone ==
    /\ Running
    /\ psd.pc = "writeJSON"
    /\ dir' = writeJSON(dir, psd.data)
    /\ psd' = [pc |-> "idle", data |-> <<>>]
    /\ bootstrapped' = "true"
    /\ bootPc' = "commands"
    /\ Did("writeJSON", Cardinality(dir))
    /\ UNCHANGED <<sessionEnv, exitCodes>>
    /\ UNCHANGED <<connVars, routes>>

\* ------------------------------------------- connection.update handler

\* sendStartupMessage(sock, owner) is called; it runs to its await of
\* sock.sendMessage.
StartLoop ==
    IF NOwners > 0
    THEN /\ loops' = Append(loops, 1)
         /\ sent' = [sent EXCEPT ![1] = @ + 1]
    ELSE UNCHANGED <<loops, sent>>

\* The close branch with the budget test one short.
closeBranchOneRetryLess(statusCode) ==
    LET shouldReconnect == statusCode # LoggedOut
    IN  /\ isConnecting' = FALSE
        /\ IF shouldReconnect /\ retryCount < MAX_RETRIES - 1
           THEN /\ retryCount' = retryCount + 1
                /\ timers' = timers + 1
                /\ UNCHANGED exitCodes
           ELSE /\ Exit(1)
                /\ UNCHANGED <<retryCount, timers>>
        /\ closes' = IF shouldReconnect THEN closes + 1 ELSE closes
        /\ UNCHANGED <<initialConnection, loops, sent, excs>>

\* The close branch without the test of the disconnect reason.
closeBranchRetriesLoggedOut(statusCode) ==
    /\ isConnecting' = FALSE
    /\ IF retryCount < MAX_RETRIES
       THEN /\ retryCount' = retryCount + 1
            /\ timers' = timers + 1
            /\ UNCHANGED exitCodes
       ELSE /\ Exit(1)
            /\ UNCHANGED <<retryCount, timers>>
    /\ closes' = IF statusCode # LoggedOut THEN closes + 1 ELSE closes
    /\ UNCHANGED <<initialConnection, loops, sent, excs>>

\* The close branch calling setTimeout twice.
closeBranchSchedulesTwice(statusCode) ==
    LET shouldReconnect == statusCode # LoggedOut
    IN  /\ isConnecting' = FALSE
        /\ IF shouldReconnect /\ retryCount < MAX_RETRIES
           THEN /\ retryCount' = retryCount + 1
                /\ timers' = timers + 2
                /\ UNCHANGED exitCodes
           ELSE /\ Exit(1)
                /\ UNCHANGED <<retryCount, timers>>
        /\ closes' = IF shouldReconnect THEN closes + 1 ELSE closes
        /\ UNCHANGED <<initialConnection, loops, sent, excs>>

\* The close branch without isConnecting = false.
closeBranchKeepsFlag(statusCode) ==
    LET shouldReconnect == statusCode # LoggedOut
    IN  /\ UNCHANGED isConnecting
        /\ IF shouldReconnect /\ retryCount < MAX_RETRIES
           THEN /\ retryCount' = retryCount + 1
                /\ timers' = timers + 1
                /\ UNCHANGED exitCodes
           ELSE /\ Exit(1)
                /\ UNCHANGED <<retryCount, timers>>
        /\ closes' = IF shouldReconnect THEN closes + 1 ELSE closes
        /\ UNCHANGED <<initialConnection, loops, sent, excs>>

\* The close branch without the retry budget: every transient close
\* schedules a reconnect.
closeBranchRetriesForever(statusCode) ==
    LET shouldReconnect == statusCode # LoggedOut
    IN  /\ isConnecting' = FALSE
        /\ IF shouldReconnect
           THEN /\ timers' = timers + 1
                /\ UNCHANGED <<retryCount, exitCodes>>
           ELSE /\ Exit(1)
                /\ UNCHANGED <<retryCount, timers>>
        /\ closes' = IF shouldReconnect THEN closes + 1 ELSE closes
        /\ UNCHANGED <<initialConnection, loops, sent, excs>>

\* if (connection === 'close') { ... }
closeBranch(statusCode) ==
    LET shouldReconnect == statusCode # LoggedOut
    IN  /\ isConnecting' = FALSE
        /\ IF shouldReconnect /\ retryCount < MAX_RETRIES
           THEN /\ retryCount' = retryCount + 1
                /\ timers' = timers + 1
                /\ UNCHANGED exitCodes
           ELSE /\ Exit(1)
                /\ UNCHANGED <<retryCount, timers>>
        /\ closes' = IF shouldReconnect THEN closes + 1 ELSE closes
        /\ UNCHANGED <<initialConnection, loops, sent, excs>>

\* The open branch without retryCount = 0.
openBranchKeepsCount ==
    /\ isConnecting' = FALSE
    /\ IF initialConnection
       THEN initialConnection' = FALSE /\ StartLoop
       ELSE UNCHANGED <<initialConnection, loops, sent>>
    /\ closes' = 0
    /\ excs' = 0
    /\ UNCHANGED <<retryCount, timers, exitCodes>>

\* The open branch without the test of initialConnection.
openBranchAlwaysNotifies ==
    /\ retryCount' = 0
    /\ isConnecting' = FALSE
    /\ initialConnection' = FALSE
    /\ StartLoop
    /\ closes' = 0
    /\ excs' = 0
    /\ UNCHANGED <<timers, exitCodes>>

\* if (connection === 'open') { ... } up to the first await of the loop
openBranch ==
    /\ retryCount' = 0
    /\ isConnecting' = FALSE
    /\ IF initialConnection
       THEN initialConnection' = FALSE /\ StartLoop
       ELSE UNCHANGED <<initialConnection, loops, sent>>
    /\ closes' = 0
    /\ excs' = 0
    /\ UNCHANGED <<timers, exitCodes>>

handlerVars == <<isConnecting, initialConnection, retryCount, timers, loops,
                 sent, exitCodes, closes, excs>>

\* The handler taking every update that is not an open for a close.
connectionUpdateNonOpenCloses(connection, statusCode) ==
    CASE connection = "open" -> openBranch
      [] OTHER               -> closeBranch(statusCode)

\* sock.ev.on('connection.update', async ({ connection, lastDisconnect }) => ...)
connectionUpdate(connection, statusCode) ==
    CASE connection = "close" -> closeBranch(statusCode)
      [] connection = "open"  -> openBranch
      [] OTHER                -> UNCHANGED handlerVars

\* A transport that has not closed reports an update that is neither open
\* nor close (connecting, a QR code, pending notifications).
EmitUpdate(s) ==
    /\ Turn
    /\ Live(s)
    /\ connectionUpdate("connecting", 0)
    /\ Did("update", s)
    /\ UNCHANGED <<socks, calls>>
    /\ UNCHANGED <<bootVars, routes>>

\* A connecting transport reports connection: 'open'.
EmitOpen(s) ==
    /\ Turn
    /\ socks[s] = "connecting"
    /\ socks' = [socks EXCEPT ![s] = "open"]
    /\ connectionUpdate("open", 0)
    /\ Did("open", s)
    /\ UNCHANGED calls
    /\ UNCHANGED <<bootVars, routes>>

\* A transport that has not closed reports connection: 'close' with the
\* status code of lastDisconnect.error; it is ended.
EmitClose(s) ==
    /\ Turn
    /\ Live(s)
    /\ socks' = [socks EXCEPT ![s] = "closed"]
    /\ \E statusCode \in StatusCodes :
          /\ connectionUpdate("close", statusCode)
          /\ Did("close", statusCode)
    /\ UNCHANGED calls
    /\ UNCHANGED <<bootVars, routes>>

\* An open branch that sets retryCount and isConnecting after its loop.
SendSettledWritesAfterLoop(l) ==
    /\ Turn
    /\ loops[l] <= NOwners
    /\ IF loops[l] < NOwners
       THEN /\ sent' = [sent EXCEPT ![loops[l] + 1] = @ + 1]
            /\ UNCHANGED <<isConnecting, retryCount>>
       ELSE /\ UNCHANGED sent
            /\ isConnecting' = FALSE
            /\ retryCount' = 0
    /\ loops' = [loops EXCEPT ![l] = @ + 1]
    /\ Did("send", loops[l])
    /\ UNCHANGED <<initialConnection, socks, timers, calls, exitCodes, closes,
                   excs>>
    /\ UNCHANGED <<bootVars, routes>>

\* The await of sock.sendMessage in sendStartupMessage settles (a rejection is
\* caught and logged there); the loop calls sendStartupMessage for the next
\* owner, or ends.
SendSettled(l) ==
    /\ Turn
    /\ loops[l] <= NOwners
    /\ IF loops[l] < NOwners
       THEN sent' = [sent EXCEPT ![loops[l] + 1] = @ + 1]
       ELSE UNCHANGED sent
    /\ loops' = [loops EXCEPT ![l] = @ + 1]
    /\ Did("send", loops[l])
    /\ UNCHANGED <<isConnecting, initialConnection, retryCount, socks, timers,
                   calls, exitCodes, closes, excs>>
    /\ UNCHANGED <<bootVars, routes>>

\* ------------------------------------------------------ connectToWhatsApp()

\* connectToWhatsApp without the guard.
connectToWhatsAppNoGuard ==
    /\ isConnecting' = TRUE
    /\ calls' = Append(calls, "auth")

\* Entry: if (isConnecting) return null; isConnecting = true; then
\* useMultiFileAuthState is called and awaited.
connectToWhatsApp ==
    IF isConnecting
    THEN UNCHANGED <<isConnecting, calls>>
    ELSE /\ isConnecting' = TRUE
         /\ calls' = Append(calls, "auth")

\* The catch block without isConnecting = false.
catchBlockKeepsFlag(c) ==
    /\ UNCHANGED isConnecting
    /\ IF retryCount < MAX_RETRIES
       THEN /\ retryCount' = retryCount + 1
            /\ timers' = timers + 1
            /\ UNCHANGED exitCodes
       ELSE /\ Exit(1)
            /\ UNCHANGED <<retryCount, timers>>
    /\ calls' = [calls EXCEPT ![c] = "done"]
    /\ excs' = excs + 1
    /\ UNCHANGED <<socks, initialConnection, loops, sent, closes>>

\* The catch block without the budget test: every exception schedules a
\* reconnect.
catchBlockNoBudget(c) ==
    /\ isConnecting' = FALSE
    /\ retryCount' = retryCount + 1
    /\ timers' = timers + 1
    /\ UNCHANGED exitCodes
    /\ calls' = [calls EXCEPT ![c] = "done"]
    /\ excs' = excs + 1
    /\ UNCHANGED <<socks, initialConnection, loops, sent, closes>>

\* The catch block with the budget test retryCount <= MAX_RETRIES.
catchBlockOneRetryMore(c) ==
    /\ isConnecting' = FALSE
    /\ IF retryCount <= MAX_RETRIES
       THEN /\ retryCount' = retryCount + 1
            /\ timers' = timers + 1
            /\ UNCHANGED exitCodes
       ELSE /\ Exit(1)
            /\ UNCHANGED <<retryCount, timers>>
    /\ calls' = [calls EXCEPT ![c] = "done"]
    /\ excs' = excs + 1
    /\ UNCHANGED <<socks, initialConnection, loops, sent, closes>>

\* catch (error) { ... return null }
catchBlock(c) ==
    /\ isConnecting' = FALSE
    /\ IF retryCount < MAX_RETRIES
       THEN /\ retryCount' = retryCount + 1
            /\ timers' = timers + 1
            /\ UNCHANGED exitCodes
       ELSE /\ Exit(1)
            /\ UNCHANGED <<retryCount, timers>>
    /\ calls' = [calls EXCEPT ![c] = "done"]
    /\ excs' = excs + 1
    /\ UNCHANGED <<socks, initialConnection, loops, sent, closes>>

\* initialize(): await connectToWhatsApp()
BootConnect ==
    /\ Running
    /\ bootPc = "connect"
    /\ connectToWhatsApp
    /\ bootPc' = "awaitConnect"
    /\ Did("connect", IF isConnecting THEN 0 ELSE 1)
    /\ UNCHANGED <<sessionEnv, dir, bootstrapped, psd, exitCodes>>
    /\ UNCHANGED <<initialConnection, retryCount, socks, timers, loops, sent,
                   closes, excs, routes>>

\* A reconnect timer fires: setTimeout's callback calls connectToWhatsApp.
TimerFires ==
    /\ Turn
    /\ timers > 0
    /\ Len(calls) < MaxConnects
    /\ timers' = timers - 1
    /\ connectToWhatsApp
    /\ Did("timer", IF isConnecting THEN 0 ELSE 1)
    /\ UNCHANGED <<initialConnection, retryCount, socks, loops, sent,
                   exitCodes, closes, excs>>
    /\ UNCHANGED <<bootVars, routes>>

\* await useMultiFileAuthState(sessionDir) settles.
AuthStateLoaded(c) ==
    /\ Turn
    /\ calls[c] = "auth"
    /\ \E ok \in BOOLEAN :
          IF ok
          THEN /\ calls' = [calls EXCEPT ![c] = "version"]
               /\ Did("auth", c)
               /\ UNCHANGED <<isConnecting, initialConnection, retryCount,
                              socks, timers, loops, sent, exitCodes, closes,
                              excs>>
          ELSE /\ catchBlock(c)
               /\ Did("catch", 1)
    /\ UNCHANGED <<bootVars, routes>>

\* await fetchLatestBaileysVersion() settles; when it resolves, makeWASocket
\* builds the transport (or throws), the handlers are subscribed to it and
\* the call returns it.
VersionFetched(c) ==
    /\ Turn
    /\ calls[c] = "version"
    /\ \E outcome \in {"socket", "versionThrows", "socketThrows"} :
          IF outcome = "socket"
          THEN /\ socks' = Append(socks, "connecting")
               /\ calls' = [calls EXCEPT ![c] = "done"]
               /\ Did("socket", c)
               /\ UNCHANGED <<isConnecting, initialConnection, retryCount,
                              timers, loops, sent, exitCodes, closes, excs>>
          ELSE /\ catchBlock(c)
               /\ Did("catch", IF outcome = "versionThrows" THEN 2 ELSE 3)
    /\ UNCHANGED <<bootVars, routes>>

\* initialize(): the awaited connectToWhatsApp() has returned (the transport
\* or null); startServer() runs.  A throw lands in initialize's catch.
StartServer ==
    /\ bootPc = "awaitConnect"
    /\ calls # <<>>
    /\ calls[1] = "done"
    /\ \E ok \in BOOLEAN : BootStep("awaitConnect", "handlers", ok)

\* process.on('unhandledRejection', ...); process.on('uncaughtException', ...)
InstallHandlers == BootStep("handlers", "done", TRUE)

\* --------------------------------------------------------- inbound events

\* What a collaborator's handler can throw: an error whose message has the
\* session-closed signature, any other error, or a value that is no object
\* (throw undefined, Promise.reject()).
Errors == {"Session closed", "other", "undefined"}

\* The frame of one event handler invocation: the item of the batch it is at,
\* the handler call it awaits, the handler calls made and those that threw.
\* order lists the calls and their settlements as they happen; reason is
\* what the handler's own promise rejected with.  RouteEventHandlerFirst is
\* a handler whose two calls are written in the other order.
RouteEventHandlerFirst(kind, n) ==
    [kind |-> kind, n |-> n, i |-> 1, stage |-> "evt",
     called |-> {<<1, "evt">>}, threw |-> {}, status |-> "running",
     order |-> <<<<"call", 1, "evt">>>>, reason |-> "none"]

Route(kind, n) ==
    [kind |-> kind, n |-> n, i |-> 1, stage |-> "msg",
     called |-> {<<1, "msg">>}, threw |-> {}, status |-> "running",
     order |-> <<<<"call", 1, "msg">>>>, reason |-> "none"]

Returned(kind, n) ==
    [kind |-> kind, n |-> n, i |-> 1, stage |-> "end",
     called |-> {}, threw |-> {}, status |-> "returned",
     order |-> <<>>, reason |-> "none"]

\* sock.ev.on('messages.upsert', async ({ messages, type }) => ...): entry,
\* up to the await of messageHandler.handleMessage for the first message.
messagesUpsert(n, type) ==
    IF type = "notify" /\ n > 0
    THEN Route("messages", n) ELSE Returned("messages", n)

\* sock.ev.on('group-participants.update', async (update) => ...): entry.
groupParticipantsUpdate == Route("participants", 1)

\* sock.ev.on('groups.update', async (updates) => ...): entry.
groupsUpdate(n) == IF n > 0 THEN Route("groups", n) ELSE Returned("groups", n)

\* The body of the for loop is through for item rt.i: the next item's
\* message handler is called, or the handler returns.
nextItem(rt) ==
    IF rt.i < rt.n
    THEN [rt EXCEPT !.i = rt.i + 1, !.stage = "msg",
                    !.called = @ \cup {<<rt.i + 1, "msg">>},
                    !.order = Append(@, <<"call", rt.i + 1, "msg">>)]
    ELSE [rt EXCEPT !.stage = "end", !.status = "returned"]

\* The message handler's call resolved: the event handler is called.
callEventHandler(rt) ==
    [rt EXCEPT !.stage = "evt",
               !.called = @ \cup {<<rt.i, "evt">>},
               !.order = Append(@, <<"call", rt.i, "evt">>)]

\* The awaited handler call of frame rt resolves (ok) or rejects.  In
\* messages.upsert the try/catch around both calls logs a rejection and the
\* loop goes on; the two group handlers have no try/catch, so a rejection
\* rejects the handler's own promise.
resume(rt, ok, error) ==
    LET settled == [rt EXCEPT !.order =
                       Append(@, <<IF ok THEN "done" ELSE "threw",
                                   rt.i, rt.stage>>)]
        thrown == [settled EXCEPT !.threw = @ \cup {<<rt.i, rt.stage>>}]
    IN  IF rt.kind = "messages"
        THEN IF rt.stage = "msg"
             THEN IF ok THEN callEventHandler(settled) ELSE nextItem(thrown)
             ELSE IF ok THEN nextItem(settled) ELSE nextItem(thrown)
        ELSE IF ~ok
             THEN [thrown EXCEPT !.stage = "end", !.status = "rejected",
                                 !.reason = error]
             ELSE IF rt.stage = "msg"
                  THEN callEventHandler(settled)
                  ELSE nextItem(settled)

\* process.on('uncaughtException', (error) => ...): log, process.exit(1).
\* Before initialize() has installed it Node's default ends the process with
\* status 1 as well.
uncaughtException == Exit(1)

\* process.on('unhandledRejection', (error) => ...), once initialize() has
\* installed it; before that Node's default raises the rejection as an
\* uncaught exception.  For a value that is no object the read of
\* error.message throws a TypeError inside the handler, which is an uncaught
\* exception.
unhandledRejection(error) ==
    IF bootPc = "done"
    THEN IF error = "undefined"
         THEN uncaughtException
         ELSE IF error = "Session closed" THEN Exit(1)
              ELSE UNCHANGED exitCodes
    ELSE uncaughtException

routerFrame == <<bootVars, connVars>>

\* An open transport delivers a batch of messages; max bounds the number of
\* events of a run.
DeliverMessages(max) ==
    /\ Turn
    /\ sock > 0 /\ socks[sock] = "open"
    /\ Len(routes) < max
    /\ \E n \in 0..MaxBatch, type \in {"notify", "append"} :
          /\ routes' = Append(routes, messagesUpsert(n, type))
          /\ Did("messages", n)
    /\ UNCHANGED <<routerFrame, exitCodes>>

\* An open transport delivers a group-participants update.
DeliverParticipants(max) ==
    /\ Turn
    /\ sock > 0 /\ socks[sock] = "open"
    /\ Len(routes) < max
    /\ routes' = Append(routes, groupParticipantsUpdate)
    /\ Did("participants", 1)
    /\ UNCHANGED <<routerFrame, exitCodes>>

\* An open transport delivers a batch of group updates.
DeliverGroups(max) ==
    /\ Turn
    /\ sock > 0 /\ socks[sock] = "open"
    /\ Len(routes) < max
    /\ \E n \in 0..MaxBatch :
          /\ routes' = Append(routes, groupsUpdate(n))
          /\ Did("groups", n)
    /\ UNCHANGED <<routerFrame, exitCodes>>

\* The handler call a frame awaits settles.
HandlerSettles(r) ==
    /\ Turn
    /\ routes[r].status = "running"
    /\ \E ok \in BOOLEAN, error \in Errors :
          LET rt == resume(routes[r], ok, error)
          IN  /\ ok => error = "other"
              /\ routes' = [routes EXCEPT ![r] = rt]
              /\ IF rt.status = "rejected"
                 THEN unhandledRejection(error)
                 ELSE UNCHANGED exitCodes
              /\ Did(IF ok THEN "handled" ELSE "threw", r)
    /\ UNCHANGED routerFrame

\* An exception no code catches reaches the process: the liveness server
\* emits 'error' with no listener, or a callback of a collaborator throws.
UncaughtException ==
    /\ Turn
    /\ uncaughtException
    /\ Did("uncaught", 0)
    /\ UNCHANGED <<routerFrame, routes>>

\* ----------------------------------------------------------------------- Next

Next ==
    \/ DisplayBanner
    \/ EnsureDirectories
    \/ ConnectToDatabase
    \/ ProcessSessionData
    \/ EmptyDirDone
    \/ WriteJSONDone
    \/ InitializeCommands
    \/ LoadEvents
    \/ BootConnect
    \/ StartServer
    \/ InstallHandlers
    \/ TimerFires
    \/ \E c \in DOMAIN calls : AuthStateLoaded(c)
    \/ \E c \in DOMAIN calls : VersionFetched(c)
    \/ \E s \in DOMAIN socks : EmitUpdate(s)
    \/ \E s \in DOMAIN socks : EmitOpen(s)
    \/ \E s \in DOMAIN socks : EmitClose(s)
    \/ \E l \in DOMAIN loops : SendSettled(l)

\* The program from its start, with one bootstrap input that parses and one
\* that does not.
MainEnvs == {<<"e", "3", "0", "=">>, <<"e", "w", "=", "=">>}
Init == InitFrom(MainEnvs, {OldDir})

Spec == Init /\ [][Next]_vars

\* The program from its start with every bootstrap input and directory.
InitBoot == InitFrom(SessionEnvs, InitDirs)

SpecBoot == InitBoot /\ [][Next]_vars

\* The program in the runs where no transport ever opens.  The awaits of
\* initialize() and of connectToWhatsApp() settle, a timer set with
\* setTimeout fires, and a transport that does not open closes
\* (connectTimeoutMs).
NextNoOpen ==
    \/ DisplayBanner
    \/ EnsureDirectories
    \/ ConnectToDatabase
    \/ ProcessSessionData
    \/ EmptyDirDone
    \/ WriteJSONDone
    \/ InitializeCommands
    \/ LoadEvents
    \/ BootConnect
    \/ StartServer
    \/ InstallHandlers
    \/ TimerFires
    \/ \E c \in DOMAIN calls : AuthStateLoaded(c)
    \/ \E c \in DOMAIN calls : VersionFetched(c)
    \/ \E s \in DOMAIN socks : EmitUpdate(s)
    \/ \E s \in DOMAIN socks : EmitClose(s)

FairNoOpen ==
    /\ WF_vars(\/ DisplayBanner \/ EnsureDirectories \/ ConnectToDatabase
               \/ ProcessSessionData \/ EmptyDirDone \/ WriteJSONDone
               \/ InitializeCommands \/ LoadEvents \/ BootConnect
               \/ StartServer \/ InstallHandlers)
    /\ WF_vars(TimerFires)
    /\ WF_vars(\E c \in DOMAIN calls : AuthStateLoaded(c))
    /\ WF_vars(\E c \in DOMAIN calls : VersionFetched(c))
    /\ WF_vars(\E s \in DOMAIN socks : EmitClose(s))

SpecNoOpen == Init /\ [][NextNoOpen]_vars /\ FairNoOpen

\* A call of connectToWhatsApp made while a connect is in flight.  The boot
\* and the timers make none: a timer is pending only after the flag was
\* cleared by a close or by the catch block.
OverlappingConnect ==
    /\ Turn
    /\ isConnecting
    /\ connectToWhatsApp
    /\ Did("overlap", Len(calls))
    /\ UNCHANGED <<initialConnection, retryCount, socks, timers, loops, sent,
                   exitCodes, closes, excs>>
    /\ UNCHANGED <<bootVars, routes>>

NextReentrant == Next \/ OverlappingConnect

SpecReentrant == Init /\ [][NextReentrant]_vars

\* Event routing on the first transport, open, after the boot and the owner
\* notifications are through.
InitRouter ==
    /\ bootPc = "done"
    /\ sessionEnv = <<"e", "3", "0", "=">>
    /\ dir = {<<"creds.json", <<123, 125>>>>}
    /\ bootstrapped = "true"
    /\ psd = [pc |-> "idle", data |-> <<>>]
    /\ isConnecting = FALSE
    /\ initialConnection = FALSE
    /\ retryCount = 0
    /\ socks = <<"open">>
    /\ timers = 0
    /\ calls = <<"done">>
    /\ loops = <<NOwners + 1>>
    /\ sent = [o \in Owners |-> 1]
    /\ exitCodes = <<>>
    /\ last = [op |-> "send", rc |-> 0, arg |-> NOwners]
    /\ closes = 0
    /\ excs = 0
    /\ routes = <<>>

NextRouter ==
    \/ DeliverMessages(MaxEvents)
    \/ DeliverParticipants(MaxEvents)
    \/ DeliverGroups(MaxEvents)
    \/ \E r \in DOMAIN routes : HandlerSettles(r)
    \/ UncaughtException

SpecRouter == InitRouter /\ [][NextRouter]_vars

\* The router with MaxFrames events in a run, for what holds of each batch.
NextBatch ==
    \/ DeliverMessages(MaxFrames)
    \/ DeliverParticipants(MaxFrames)
    \/ DeliverGroups(MaxFrames)
    \/ \E r \in DOMAIN routes : HandlerSettles(r)
    \/ UncaughtException

SpecBatch == InitRouter /\ [][NextBatch]_vars

\* ------------------------------------------------------------------- claims

TransientClose(l) == l.op = "close" /\ l.arg # LoggedOut

\* C1: in every reachable state at most one transport instance is Connecting
\* or Open.
AtMostOneLiveTransport == Cardinality(LiveSocks) <= 1

\* A later transport opened after two failed attempts.
AtMostOneLiveTransport_Witness ==
    /\ Len(socks) >= 2
    /\ socks[Len(socks)] = "open"
    /\ last.op = "open" /\ last.rc >= 2

\* C2: a connectToWhatsApp call made while the flag is set changes nothing:
\* no transport, no attempt, the counter, the flags and the timers as before.
OverlappingConnectIsNoOp ==
    [][last'.op = "overlap" =>
         UNCHANGED <<socks, calls, retryCount, isConnecting, initialConnection,
                     timers, loops, sent, exitCodes, routes>>]_vars

\* An overlapping call has been made while an attempt was awaiting.
OverlappingConnectIsNoOp_Witness ==
    /\ last.op = "overlap"
    /\ isConnecting
    /\ InFlight # {}

\* C3 as stated: after five consecutive transient closes from counter 0, with
\* no open and no connect exception between them, the process has exited.
FifthCloseTerminates ==
    (TransientClose(last) /\ excs = 0 /\ closes = 5) => ~Running

\* C3 as amended: with no open and no connect exception between them, the
\* first five transient closes are retried (the counter counts them) and the
\* sixth exits with status 1; process.exit is called at most once in a run.
SixthCloseTerminates ==
    /\ Len(exitCodes) <= 1
    /\ (TransientClose(last) /\ excs = 0) =>
          IF closes = MAX_RETRIES + 1
          THEN exitCodes = <<1>>
          ELSE Running /\ retryCount = closes /\ timers = 1

SixthCloseTerminates_Witness ==
    /\ TransientClose(last)
    /\ excs = 0
    /\ closes = 6
    /\ exitCodes = <<1>>

\* C4: a close with the LoggedOut reason exits with status 1 whatever the
\* counter, leaves the counter as it was and schedules no reconnect.
LoggedOutTerminates ==
    [][(last'.op = "close" /\ last'.arg = LoggedOut) =>
         /\ exitCodes' = <<1>>
         /\ retryCount' = retryCount
         /\ timers' = timers
         /\ calls' = calls]_vars

\* A LoggedOut close arrived with retry budget left.
LoggedOutTerminates_Witness ==
    /\ last.op = "close" /\ last.arg = LoggedOut
    /\ last.rc > 0 /\ last.rc < MAX_RETRIES
    /\ exitCodes = <<1>>

\* C5: once an item of an event has been dealt with, if one of its two
\* handler calls threw then both were called, and so was the message handler
\* of the next item of the batch.
ItemDone(rt, i) == rt.status # "running" \/ rt.i > i

HandlerFailureIsolated ==
    \A r \in DOMAIN routes :
        \A i \in 1..routes[r].n :
            (/\ ItemDone(routes[r], i)
             /\ \E h \in {"msg", "evt"} : <<i, h>> \in routes[r].threw)
            => /\ {<<i, "msg">>, <<i, "evt">>} \subseteq routes[r].called
               /\ i < routes[r].n => <<i + 1, "msg">> \in routes[r].called

\* C6 as stated: a process that saw an open has, when it ends, called
\* sendStartupMessage exactly once for each owner.
EveryOwnerNotifiedOnce ==
    (~initialConnection /\ ~Running) => \A o \in Owners : sent[o] = 1

\* C6 as amended: sendStartupMessage is never called before the first open
\* nor twice for an owner; only the first open starts the loop, which calls
\* it for the owners in order, and once the loop is through it has been
\* called exactly once for each.
NotifiedAtMostOnce ==
    /\ Len(loops) <= 1
    /\ initialConnection => (loops = <<>> /\ \A o \in Owners : sent[o] = 0)
    /\ ~initialConnection /\ NOwners > 0 =>
          /\ Len(loops) = 1
          /\ \A o \in Owners :
                sent[o] = IF o <= loops[1] THEN 1 ELSE 0

\* A second transport opened while the loop of the first open is suspended
\* on its first send.
NotifiedAtMostOnce_Witness ==
    /\ last.op = "open"
    /\ Len(socks) >= 2
    /\ loops = <<1>>

\* C7: every open event sets the retry counter to 0.
OpenResetsRetryCount == [][last'.op = "open" => retryCount' = 0]_vars

\* One transient close, the reconnect, the counter at 1, then open.
OpenResetsRetryCount_Witness ==
    /\ last.op = "open" /\ last.rc = 1
    /\ socks = <<"closed", "open">>
    /\ retryCount = 0

\* C8: processSessionData returns false and leaves sessionDir as it was when
\* SESSION_DATA is unset, empty or does not parse, raising nothing; with a
\* value that parses it empties sessionDir, then writes creds.json into the
\* empty directory and returns true.
Parses(env) == env \notin {Absent, <<>>} /\ JSONParse(Base64Decode(env)).ok

TransientCloseSchedulesOnce ==
    /\ [][(TransientClose(last') /\ retryCount < MAX_RETRIES) =>
            /\ retryCount' = retryCount + 1
            /\ timers' = timers + 1
            /\ Len(socks') = Len(socks)
            /\ calls' = calls
            /\ isConnecting' = FALSE
            /\ exitCodes' = exitCodes]_vars
    /\ [](timers > 0 => LiveSocks = {} /\ InFlight = {} /\ ~isConnecting)
    /\ [][(timers > 0 /\ last'.op # "timer") =>
            Len(socks') = Len(socks) /\ Len(calls') = Len(calls)]_vars

\* A transient close has just scheduled the only timer.
TransientCloseSchedulesOnce_Witness ==
    /\ TransientClose(last)
    /\ retryCount = last.rc + 1
    /\ timers = 1

\* C10: an exception inside connectToWhatsApp is caught: the flag is cleared
\* and the call returns; below MAX_RETRIES the counter and the timers grow
\* by one and the process runs on, at MAX_RETRIES process.exit(1) is called;
\* initialize() sees no exception.
ConnectExceptionConsumesBudget ==
    [][last'.op = "catch" =>
         /\ isConnecting' = FALSE
         /\ socks' = socks
         /\ \E c \in DOMAIN calls :
               calls[c] # "done" /\ calls' = [calls EXCEPT ![c] = "done"]
         /\ bootPc' = bootPc
         /\ IF retryCount < MAX_RETRIES
            THEN /\ retryCount' = retryCount + 1
                 /\ timers' = timers + 1
                 /\ exitCodes' = exitCodes
            ELSE /\ retryCount' = retryCount
                 /\ timers' = timers
                 /\ exitCodes' = Append(exitCodes, 1)]_vars

\* The budget was used up by closes and exceptions together, and the next
\* exception exited.
ConnectExceptionConsumesBudget_Witness ==
    /\ last.op = "catch" /\ last.rc = MAX_RETRIES
    /\ closes > 0
    /\ exitCodes = <<1>>

\* C11: two events of one stream are never processed overlapping: no handler
\* call is made for a later event of a stream while the handler invocation
\* of an earlier event of that stream has not returned.
EventsNeverOverlap ==
    \A r1 \in DOMAIN routes, r2 \in DOMAIN routes :
       (/\ r1 < r2
        /\ routes[r1].kind = routes[r2].kind
        /\ routes[r2].order # <<>>)
       => routes[r1].status # "running"

\* The steps of initialize() in the order of the source.
BootOrder ==
    <<"banner", "dirs", "db", "session", "commands", "events", "connect",
      "awaitConnect", "handlers", "done">>

\* The steps before connectToWhatsApp() that can reject.
FailsBeforeConnect == {"dirs", "db", "commands", "events"}

\* C12: initialize() takes its steps strictly in the order banner,
\* directories, database, credential bootstrap, command registry, event
\* registry, connectToWhatsApp(), liveness server, process handlers, each
\* after the one before it has completed; a rejection of a step up to and
\* including the start of the liveness server exits with status 1 and no
\* later step runs: after a failure of the directories, the database or a
\* registry connectToWhatsApp() was never called.
BootRunsInOrder ==
    /\ [][bootPc' # bootPc =>
            \/ \E k \in 1..(Len(BootOrder) - 1) :
                  bootPc = BootOrder[k] /\ bootPc' = BootOrder[k + 1]
            \/ /\ bootPc' = "failed"
               /\ bootPc \in FailsBeforeConnect \cup {"awaitConnect"}
               /\ exitCodes = <<>> /\ exitCodes' = <<1>>]_vars
    /\ [][(last'.op \in FailsBeforeConnect \cup {"awaitConnect"}
             /\ last'.arg = 0)
            => bootPc' = "failed" /\ exitCodes' = <<1>>]_vars
    /\ [][bootPc = "failed" => UNCHANGED vars]_vars
    /\ [](bootPc \in {"banner", "dirs", "db", "session", "commands",
                       "events", "connect"}
            => calls = <<>> /\ socks = <<>> /\ timers = 0)
    /\ [](bootPc = "session" => psd.pc \in {"idle", "emptyDir", "writeJSON"})
    /\ [](bootPc \in {"banner", "dirs", "db"} => bootstrapped = "pending")
    /\ [](bootPc \in {"commands", "events", "connect", "awaitConnect",
                       "handlers", "done"} => bootstrapped # "pending")
    /\ [](bootPc \in {"handlers", "done"}
            => calls # <<>> /\ calls[1] = "done")
    /\ [](bootPc = "failed" /\ last.op \in FailsBeforeConnect
            => calls = <<>> /\ socks = <<>> /\ exitCodes = <<1>>)

\* The event registry rejected after the credentials were bootstrapped: the
\* process exited and connectToWhatsApp() was never called.
BootRunsInOrder_Witness ==
    /\ bootPc = "failed" /\ last.op = "events"
    /\ bootstrapped = "true"
    /\ exitCodes = <<1>> /\ calls = <<>>

\* C13: the program never retries forever: in every run in which no
\* transport opens, every connect attempt fails (by a close or by a caught
\* exception) and every reconnect timer fires, the process exits with
\* status 1, and it has scheduled at most MAX_RETRIES reconnects (one per
\* failure, counted by retryCount) and made at most MAX_RETRIES + 1 attempts.
NoOpenRunTerminates ==
    /\ <>(exitCodes = <<1>>)
    /\ [](/\ retryCount <= MAX_RETRIES
          /\ Running => retryCount = closes + excs
          /\ timers <= 1
          /\ Len(calls) + timers <= retryCount + 1)

\* The budget was used by closes and exceptions, and the failure after the
\* fifth reconnect exited.
NoOpenRunTerminates_Witness ==
    /\ bootPc = "done"
    /\ exitCodes = <<1>>
    /\ retryCount = MAX_RETRIES
    /\ Len(calls) = MAX_RETRIES + 1
    /\ closes > 1 /\ excs > 1
    /\ \A s \in DOMAIN socks : socks[s] = "closed"

\* C14: the retry decision is the same function of the counter on both
\* failure paths: after a transient close and after a caught exception of
\* connectToWhatsApp a reconnect is scheduled if and only if the counter n
\* at the failure is below MAX_RETRIES, and for n >= MAX_RETRIES none is
\* scheduled and process.exit(1) is called.
RetryDecisionIsOneFunction ==
    [][(TransientClose(last') \/ last'.op = "catch") =>
         /\ last'.rc = retryCount
         /\ IF retryCount < MAX_RETRIES
            THEN /\ timers' = timers + 1
                 /\ retryCount' = retryCount + 1
                 /\ exitCodes' = exitCodes
            ELSE /\ timers' = timers
                 /\ retryCount' = retryCount
                 /\ exitCodes' = Append(exitCodes, 1)]_vars

\* A transient close found the budget used up, part of it by exceptions,
\* and exited.
RetryDecisionIsOneFunction_Witness ==
    /\ TransientClose(last) /\ last.rc = MAX_RETRIES
    /\ excs > 0
    /\ timers = 0
    /\ exitCodes = <<1>>

\* C15: an unhandled rejection ends the process if and only if its message
\* has the session-closed signature; any other one is logged and leaves the
\* connection state, the retry counter and the flags as they were while the
\* process runs on; an uncaught exception always exits with status 1.
RejectionExitsIffSessionClosed ==
    /\ \A r \in DOMAIN routes :
          (routes[r].status = "rejected"
           /\ routes[r].reason = "Session closed") => exitCodes = <<1>>
    /\ (/\ last.op = "threw"
        /\ routes[last.arg].status = "rejected"
        /\ routes[last.arg].reason # "Session closed")
       => /\ Running
          /\ socks = <<"open">> /\ retryCount = 0 /\ timers = 0
          /\ ~isConnecting /\ ~initialConnection
    /\ last.op = "uncaught" => exitCodes = <<1>>

\* The calls and settlements of a handler invocation that routes n items and
\* in which no call throws.
FullOrder(n) ==
    [k \in 1..(4 * n) |->
        <<IF k % 2 = 1 THEN "call" ELSE "done",
          ((k - 1) \div 4) + 1,
          IF (k - 1) % 4 < 2 THEN "msg" ELSE "evt">>]

\* C16: a batch of group updates, and a notify batch of messages, is routed
\* item by item in the batch order: for an item the event handler is called
\* only after the message handler's call for that item has completed, and
\* the message handler is called for the next item only after the calls for
\* the item before it are over; a handler invocation in which no call throws
\* makes exactly the calls message handler, event handler for items 1..n in
\* this order, each after the one before it has completed.
BatchRoutedInOrder ==
    \A r \in DOMAIN routes :
       LET o == routes[r].order
       IN  /\ \A k \in DOMAIN o :
                 IF o[k][1] = "call"
                 THEN IF k = 1
                      THEN o[k] = <<"call", 1, "msg">>
                      ELSE IF o[k][3] = "evt"
                           THEN o[k - 1] = <<"done", o[k][2], "msg">>
                           ELSE /\ o[k - 1][1] \in {"done", "threw"}
                                /\ o[k - 1][2] = o[k][2] - 1
                                /\ (o[k - 1][3] = "evt"
                                    \/ o[k - 1][1] = "threw")
                 ELSE k > 1 /\ o[k - 1] = <<"call", o[k][2], o[k][3]>>
           /\ \A k \in DOMAIN o : o[k][2] \in 1..routes[r].n
           /\ (/\ routes[r].status = "returned"
               /\ routes[r].threw = {}
               /\ routes[r].called # {})
              => o = FullOrder(routes[r].n)

\* A batch of two group updates was routed to its end.
BatchRoutedInOrder_Witness ==
    \E r \in DOMAIN routes :
       /\ routes[r].kind = "groups"
       /\ routes[r].n = 2
       /\ routes[r].status = "returned"
       /\ Len(routes[r].order) = 8

\* C17: in every reachable state retryCount is an integer in
\* 0..MAX_RETRIES; a step changes it only by adding one when it is below
\* MAX_RETRIES (a transient close, a caught exception) or by setting it to 0
\* (an open event), under every interleaving of closes, opens and caught
\* exceptions.
RetryCountInRange ==
    /\ [](retryCount \in 0..MAX_RETRIES)
    /\ [][\/ retryCount' = retryCount
          \/ /\ retryCount < MAX_RETRIES
             /\ retryCount' = retryCount + 1
             /\ (TransientClose(last') \/ last'.op = "catch")
          \/ /\ retryCount' = 0
             /\ last'.op = "open"]_vars

\* The budget is used up by closes and exceptions and the program runs on
\* with its sixth attempt.
RetryCountInRange_Witness ==
    /\ retryCount = MAX_RETRIES
    /\ closes > 0 /\ excs > 0
    /\ last.op = "timer"
    /\ Running

\* C18: every scheduled reconnect makes a connect attempt: when a reconnect
\* timer fires isConnecting is false, so its connectToWhatsApp call passes
\* the guard; at most one timer is pending at any time, and none while a
\* transport is connecting or open or a connect attempt is in flight.
TimerNeverSwallowed ==
    /\ [][last'.op = "timer" =>
            /\ ~isConnecting /\ isConnecting'
            /\ last'.arg = 1
            /\ timers' = timers - 1
            /\ calls' = Append(calls, "auth")]_vars
    /\ [](timers <= 1)
    /\ [](timers > 0 => LiveSocks = {} /\ InFlight = {} /\ ~isConnecting)

\* The timer set by a close that followed an open fired and started the
\* second attempt.
TimerNeverSwallowed_Witness ==
    /\ last.op = "timer" /\ last.arg = 1
    /\ Len(calls) = 2 /\ calls[2] = "auth"
    /\ socks = <<"closed">>
    /\ ~initialConnection
    /\ isConnecting /\ timers = 0

\* C19: the open branch writes retryCount, isConnecting and
\* initialConnection before its first await and none of them afterwards:
\* when its notification loop resumes after a close was handled, the
\* counter, the flag and the timer the close branch left are as it left
\* them.
OpenWritesBeforeFirstAwait ==
    /\ [][last'.op = "open" =>
            /\ retryCount' = 0
            /\ isConnecting' = FALSE
            /\ initialConnection' = FALSE]_vars
    /\ [][last'.op = "send" =>
            UNCHANGED <<retryCount, isConnecting, initialConnection, timers,
                        socks, calls, exitCodes>>]_vars

\* The transport closed while the loop was suspended after the first
\* notification; the loop resumed and ended with the close branch's counter
\* and timer in place.
OpenWritesBeforeFirstAwait_Witness ==
    /\ last.op = "send" /\ last.arg = NOwners
    /\ closes = 1 /\ excs = 0
    /\ retryCount = 1 /\ timers = 1 /\ ~isConnecting
    /\ socks = <<"closed">>
    /\ \A o \in Owners : sent[o] = 1

====
